---- MODULE Spec2Model ----
(***************************************************************************)
(* State-machine model of the CISA practice application                    *)
(* (src/cisa-practice-app/src/App.jsx, component CISAPracticeApp).         *)
(*                                                                         *)
(* The React state of the component is the state of the model.  A handler  *)
(* reads the values of the render it was created in and writes state; the  *)
(* effects (useEffect) run when the render that follows is committed.  A   *)
(* click is flushed synchronously, so a click handler and the commit that  *)
(* follows it are one action.  The callback of setInterval is not: its     *)
(* updates are rendered in a later task (action Render).                   *)
(*                                                                         *)
(* Times are milliseconds (Date.now()).  null is 0, as in the arithmetic   *)
(* and the truth tests of the source (Date.now() - null, examStartTime &&).*)
(***************************************************************************)
EXTENDS Integers, Sequences, FiniteSets, TLC

\* ------------------------------------------------------------------ bounds
\* Clock advance of one short step, in milliseconds.
TickMs == 500
\* Number of short clock steps besides one long wait.
MaxTicks == 1
\* Sessions started, finished or not.
MaxSessions == 2
\* Seconds recorded for a question after which the learner goes back no more.
MaxSeconds == 3
\* Largest question list of the score specification (SpecScore).
MaxScoreTotal == 40

\* --------------------------------------------------- IEEE-754 double helpers
\* A 53-bit significand does not fit TLC's integers: it is kept as three limbs
\* of 18 bits, [hi, mid, lo] = hi * 2^36 + mid * 2^18 + lo.
Limb == 2^18

\* The number of bits of n > 0.
BitLen(n) == CHOOSE k \in 1..30 : 2^(k - 1) <= n /\ n < 2^k

\* lo + inc carried into mid and hi.
Carry(hi, mid, lo) ==
    [hi  |-> hi + (mid + lo \div Limb) \div Limb,
     mid |-> (mid + lo \div Limb) % Limb,
     lo  |-> lo % Limb]

\* The double nearest to a/b (0 < a <= b < 2^12), ties to even: the significand
\* m in [2^52, 2^53] with a/b ~ m / 2^frac.  Long division in base 2^18 of
\* a * 2^frac by b, then the rounding of what is left.
DoubleDiv(a, b) ==
    LET s   == CHOOSE k \in 0..12 : b <= a * 2^k /\ a * 2^k < 2 * b
        n2  == a * 2^s * 2^16
        q2  == n2 \div b
        n1  == (n2 % b) * Limb
        q1  == n1 \div b
        n0  == (n1 % b) * Limb
        q0  == n0 \div b
        rem == n0 % b
        up  == 2 * rem > b \/ (2 * rem = b /\ q0 % 2 = 1)
        m   == Carry(q2, q1, q0 + (IF up THEN 1 ELSE 0))
    IN  [hi |-> m.hi, mid |-> m.mid, lo |-> m.lo, frac |-> 52 + s]

\* The double nearest to q * k (0 < k <= 256), ties to even: the product has at
\* most 8 bits more than 53, all of them in the low limb.
DoubleMul(q, k) ==
    LET p      == Carry(q.hi * k, q.mid * k, q.lo * k)
        drop   == BitLen(p.hi) + 36 - 53
        low    == p.lo % 2^drop
        guard  == drop > 0 /\ low >= 2^(drop - 1)
        sticky == drop > 0 /\ low % 2^(drop - 1) # 0
        odd    == (p.lo \div 2^drop) % 2 = 1
        up     == guard /\ (sticky \/ odd)
        r      == Carry(p.hi, p.mid, p.lo - low + (IF up THEN 2^drop ELSE 0))
    IN  [hi |-> r.hi, mid |-> r.mid, lo |-> r.lo, frac |-> q.frac]

\* Math.round(x) of the double x = (hi, mid, lo) / 2^frac, frac >= 52: the
\* nearest integer, a half going up.  The integer part and the half bit are
\* both in the high limb.
MathRound(x) ==
    (x.hi \div 2^(x.frac - 36)) + ((x.hi \div 2^(x.frac - 37)) % 2)

\* Math.round((a / b) * k) as JavaScript computes it, 0 <= a <= b, 0 < k <= 256.
MathRoundScaled(a, b, k) ==
    IF a = 0 THEN 0 ELSE MathRound(DoubleMul(DoubleDiv(a, b), k))

\* ------------------------------------------------------------ the catalog
\* CISA_DOMAIN_WEIGHTS, in percent.
CISA_DOMAIN_WEIGHTS ==
    [d \in {"Information System Auditing Process",
            "Governance And Management Of It",
            "Information Systems Acquisition, Development And Implementation",
            "Information Systems Operations And Business Resilience",
            "Protection Of Information Assets"} |->
        CASE d = "Information System Auditing Process" -> 18
          [] d = "Governance And Management Of It" -> 18
          [] d = "Information Systems Acquisition, Development And Implementation" -> 12
          [] d = "Information Systems Operations And Business Resilience" -> 26
          [] d = "Protection Of Information Assets" -> 26]

\* A catalog as transformQuestions returns it: unique ids, every correctAnswer
\* an index of options.  One question of a weighted domain, one of the default
\* domain.
Catalog ==
    << [id |-> 1, options |-> <<"a", "b">>, correctAnswer |-> 0,
        domain |-> "Protection Of Information Assets"],
       [id |-> 2, options |-> <<"a", "b">>, correctAnswer |-> 1,
        domain |-> "General"] >>

\* The values of the <select> of the exam setup screen.
ExamQuestionCounts == {50, 100, 150}

\* ---------------------------------------------------------------- the state
VARIABLES
    allQuestions,         \* the catalog, fixed after load
    questions,            \* the question list of the session
    currentMode,
    currentQuestion,      \* cursor, from 0
    lastSessionResults,   \* <<>> (null) or <<sessionData>>
    selectedAnswers,      \* question id -> option index, for the answered ones
    examStartTime,        \* 0 is null
    examDuration,         \* seconds
    sessionHistory,       \* most recent first
    domainPerformance,    \* domain -> [correct, total]
    sessionStartTime,     \* 0 is null
    bookmarkedQuestions,
    incorrectlyAnswered,
    questionStartTime,    \* 0 is null
    questionTimes,        \* question id -> seconds
    now,                  \* Date.now()
    examEffect,           \* what the exam-timer effect captured when it last ran
    qEffect,              \* what the question-timer effect captured when it last ran
    renderPending,        \* the updates of a timer callback are not yet rendered
    storage,              \* the store: key -> value last saved
    run,                  \* the call a function specification follows (none in Spec)
    started,              \* history: the number of sessions started so far
    atStart               \* history: the aggregates when the last session started

vars == <<allQuestions, questions, currentMode, currentQuestion, lastSessionResults,
          selectedAnswers, examStartTime, examDuration, sessionHistory,
          domainPerformance, sessionStartTime, bookmarkedQuestions, incorrectlyAnswered,
          questionStartTime, questionTimes, now, examEffect, qEffect, renderPending,
          storage, run, started, atStart>>

\* ------------------------------------------------------------------ helpers
EmptyMap == [x \in {} |-> 0]

Put(f, k, v) == [x \in DOMAIN f \cup {k} |-> IF x = k THEN v ELSE f[x]]

\* (prev[k] || 0) + v
AddTime(prev, k, v) == Put(prev, k, (IF k \in DOMAIN prev THEN prev[k] ELSE 0) + v)

\* currentMode.startsWith('practice')
IsPractice(mode) == mode \in {"practice", "practice-incorrect", "practice-bookmarked"}

QuestionModes == {"practice", "practice-incorrect", "practice-bookmarked", "exam"}

\* Math.round(ms / 1000), Math.floor(ms / 1000), Math.round(ms / 60000), ms >= 0
RoundSeconds(ms) == (ms + 500) \div 1000
FloorSeconds(ms) == ms \div 1000
RoundMinutes(ms) == (ms + 30000) \div 60000

\* The questions of qs at the positions of the set idx, in the order of qs.
RECURSIVE FilterSeq(_, _)
FilterSeq(qs, ids) ==
    IF qs = <<>> THEN <<>>
    ELSE (IF Head(qs).id \in ids THEN <<Head(qs)>> ELSE <<>>) \o FilterSeq(Tail(qs), ids)

Ids(qs) == {qs[i].id : i \in 1..Len(qs)}

\* The lists of n different questions of the pool, in every order.
Arrangements(pool, n) ==
    {[i \in 1..n |-> pool[f[i]]] :
        f \in {g \in [1..n -> 1..Len(pool)] : \A i, j \in 1..n : i # j => g[i] # g[j]}}

Min(a, b) == IF a <= b THEN a ELSE b

\* ------------------------------------------------------------------ scoring
IsCorrect(q, answers) == q.id \in DOMAIN answers /\ answers[q.id] = q.correctAnswer

calculateScore(qs, answers) ==
    LET correct == Cardinality({i \in 1..Len(qs) : IsCorrect(qs[i], answers)})
        total   == Len(qs)
    IN  [correct |-> correct, total |-> total,
         percentage |-> IF total > 0 THEN MathRoundScaled(correct, total, 100) ELSE 0]

\* A variant of the reduce of recordSession that counts the answered questions
\* of a domain as its correct ones, and the reduce.
domainBreakdownOfAnswered(qs, answers) ==
    [d \in {qs[i].domain : i \in 1..Len(qs)} |->
        [correct |-> Cardinality({i \in 1..Len(qs) : qs[i].domain = d /\ qs[i].id \in DOMAIN answers}),
         total   |-> Cardinality({i \in 1..Len(qs) : qs[i].domain = d})]]

domainBreakdownOf(qs, answers) ==
    [d \in {qs[i].domain : i \in 1..Len(qs)} |->
        [correct |-> Cardinality({i \in 1..Len(qs) : qs[i].domain = d /\ IsCorrect(qs[i], answers)}),
         total   |-> Cardinality({i \in 1..Len(qs) : qs[i].domain = d})]]

\* sessionData of recordSession, from the values the caller's render holds.
sessionDataOf(mode, qs, answers, times, startTime) ==
    [id             |-> now,
     date           |-> now,
     mode           |-> mode,
     totalQuestions |-> Len(qs),
     correctAnswers |-> calculateScore(qs, answers).correct,
     percentage     |-> calculateScore(qs, answers).percentage,
     timeSpent      |-> IF startTime # 0 THEN RoundMinutes(now - startTime) ELSE 0,
     domainBreakdown |-> domainBreakdownOf(qs, answers),
     questionTimes  |-> times]

\* A variant of the updater that stores the session's counts over the running
\* ones instead of adding them.
addBreakdownReplacing(prev, bd) ==
    [d \in DOMAIN prev \cup DOMAIN bd |-> IF d \in DOMAIN bd THEN bd[d] ELSE prev[d]]

\* The updater of setDomainPerformance, run once for an update.  (It adds into
\* the entries of prev in place, so a development build that runs updaters
\* twice would add twice; this is the production behaviour.)
addBreakdown(prev, bd) ==
    [d \in DOMAIN prev \cup DOMAIN bd |->
        [correct |-> (IF d \in DOMAIN prev THEN prev[d].correct ELSE 0)
                     + (IF d \in DOMAIN bd THEN bd[d].correct ELSE 0),
         total   |-> (IF d \in DOMAIN prev THEN prev[d].total ELSE 0)
                     + (IF d \in DOMAIN bd THEN bd[d].total ELSE 0)]]

\* ------------------------------------------------------------------ effects
\* The mode the handlers on the screen were created with: while the updates of
\* the timer callback wait for their render, the screen is still the exam's.
ViewMode == IF renderPending THEN examEffect.currentMode ELSE currentMode

\* questions[currentQuestion] is defined
HasQuestion(qs, cq) == cq >= 0 /\ cq < Len(qs)

QuestionEffectActive(e) == IsPractice(e.currentMode) /\ HasQuestion(e.questions, e.currentQuestion)

\* The commit of a render with the given state: the effects whose dependencies
\* changed clean up and run again.
\*   exam timer     [currentMode, examStartTime, examDuration]: clearInterval,
\*                  and a new interval whose callback holds this render's values;
\*   question timer [currentQuestion, currentMode, questions]: the clean-up adds
\*                  the time since the questionStartTime it captured, and the
\*                  effect sets questionStartTime.
Commit(m, qs, cq, sa, qt, sst, est, edur) ==
    LET qChanged == <<m, qs, cq>> # <<qEffect.currentMode, qEffect.questions, qEffect.currentQuestion>>
        eChanged == <<m, est, edur>> # <<examEffect.currentMode, examEffect.examStartTime, examEffect.examDuration>>
    IN  /\ currentMode' = m
        /\ questions' = qs
        /\ currentQuestion' = cq
        /\ selectedAnswers' = sa
        /\ sessionStartTime' = sst
        /\ examStartTime' = est
        /\ examDuration' = edur
        /\ questionTimes' =
             IF qChanged /\ QuestionEffectActive(qEffect)
             THEN AddTime(qt, qEffect.questions[qEffect.currentQuestion + 1].id,
                          RoundSeconds(now - qEffect.questionStartTime))
             ELSE qt
        /\ questionStartTime' =
             IF qChanged /\ IsPractice(m) /\ HasQuestion(qs, cq) THEN now ELSE questionStartTime
        /\ qEffect' =
             IF qChanged
             THEN [currentMode |-> m, questions |-> qs, currentQuestion |-> cq,
                   questionStartTime |-> questionStartTime]
             ELSE qEffect
        /\ examEffect' =
             IF eChanged
             THEN [currentMode |-> m, examStartTime |-> est, examDuration |-> edur,
                   questions |-> qs, selectedAnswers |-> sa, questionTimes |-> qt,
                   sessionStartTime |-> sst]
             ELSE examEffect
        /\ renderPending' = FALSE

\* A commit that changes the mode only.
CommitMode(m) ==
    Commit(m, questions, currentQuestion, selectedAnswers, questionTimes,
           sessionStartTime, examStartTime, examDuration)

\* The interval of the exam-timer effect is set and not cleared.
TimerActive == examEffect.currentMode = "exam" /\ examEffect.examStartTime # 0

\* ------------------------------------------------------------------ the store
\* [...set]: the ids as an array.  The code's array is in insertion order;
\* new Set(array) does not depend on the order, the model's is ascending.
RECURSIVE SetToArray(_)
SetToArray(set) ==
    IF set = {} THEN <<>>
    ELSE LET first == CHOOSE x \in set : \A y \in set : x <= y
         IN  <<first>> \o SetToArray(set \ {first})

\* new Set(array)
ArrayToSet(array) == {array[i] : i \in 1..Len(array)}

\* A variant of the save effect that does not save incorrectlyAnswered, and
\* the four setItem calls of the save effect.  (A setItem that throws is not
\* modelled: the store accepts every write.)
SavedWithoutIncorrect(history, performance, bookmarked, incorrect) ==
    [sessionHistory |-> history, domainPerformance |-> performance,
     bookmarked |-> SetToArray(bookmarked), incorrect |-> <<>>]

SavedProgress(history, performance, bookmarked, incorrect) ==
    [sessionHistory |-> history, domainPerformance |-> performance,
     bookmarked |-> SetToArray(bookmarked), incorrect |-> SetToArray(incorrect)]

\* The save effect of the render that follows an event: it runs when one of
\* its four dependencies has changed since the last render, and then the
\* store holds the rendered values; a render it does not run in would save
\* what the store holds already.  Updates that are not rendered yet are not
\* saved.  It is the last conjunct of an event, after the event's updates.
saveProgress ==
    storage' = IF renderPending' THEN storage
               ELSE SavedProgress(sessionHistory', domainPerformance',
                                  bookmarkedQuestions', incorrectlyAnswered')

\* The aggregates that the initializers of useState read from the store.
loadedProgress ==
    [sessionHistory      |-> storage.sessionHistory,
     domainPerformance   |-> storage.domainPerformance,
     bookmarkedQuestions |-> ArrayToSet(storage.bookmarked),
     incorrectlyAnswered |-> ArrayToSet(storage.incorrect)]

\* ------------------------------------------------------------------ Init
InitWith(catalog) ==
    /\ allQuestions = catalog
    /\ questions = <<>>
    /\ currentMode = "analytics"
    /\ currentQuestion = 0
    /\ lastSessionResults = <<>>
    /\ selectedAnswers = EmptyMap
    /\ examStartTime = 0
    /\ examDuration = 240 * 60
    /\ sessionHistory = <<>>
    /\ domainPerformance = EmptyMap
    /\ sessionStartTime = 0
    /\ bookmarkedQuestions = {}
    /\ incorrectlyAnswered = {}
    /\ questionStartTime = 0
    /\ questionTimes = EmptyMap
    /\ now = TickMs
    /\ examEffect = [currentMode |-> "analytics", examStartTime |-> 0, examDuration |-> 240 * 60,
                     questions |-> <<>>, selectedAnswers |-> EmptyMap,
                     questionTimes |-> EmptyMap, sessionStartTime |-> 0]
    /\ qEffect = [currentMode |-> "analytics", questions |-> <<>>, currentQuestion |-> 0,
                  questionStartTime |-> 0]
    /\ renderPending = FALSE
    /\ storage = SavedProgress(<<>>, EmptyMap, {}, {})
    /\ started = 0
    /\ atStart = [sessionHistory |-> <<>>, domainPerformance |-> EmptyMap,
                  incorrectlyAnswered |-> {}]

\* No call is followed.
NoRun == [op |-> "none"]

\* The question bank is the catalog above or empty.
Init ==
    /\ \E catalog \in {Catalog, <<>>} : InitWith(catalog)
    /\ run = NoRun

\* ------------------------------------------------------------------ handlers
commitVars == <<currentMode, questions, currentQuestion, selectedAnswers, sessionStartTime,
                examStartTime, examDuration, questionTimes, questionStartTime, qEffect,
                examEffect, renderPending>>

aggregateVars == <<sessionHistory, domainPerformance, incorrectlyAnswered>>

\* What no event of the component changes.
fixedVars == <<allQuestions, run>>

\* The history variables, and what they become when a session starts.
historyVars == <<started, atStart>>

SessionStarts ==
    /\ started' = started + 1
    /\ atStart' = [sessionHistory |-> sessionHistory, domainPerformance |-> domainPerformance,
                   incorrectlyAnswered |-> incorrectlyAnswered]

\* The question on the screen.
currentQ == questions[currentQuestion + 1]

isAnswered == currentQ.id \in DOMAIN selectedAnswers

\* Math.round((examQuestionCount / 150) * 240) * 60, seconds
ExamDurationOf(examQuestionCount) == MathRoundScaled(examQuestionCount, 150, 240) * 60

\* Math.round(examQuestionCount * weight): for the counts of the setup screen
\* the product is within rounding error of an integer.
DomainCount(examQuestionCount, d) == (2 * examQuestionCount * CISA_DOMAIN_WEIGHTS[d] + 100) \div 200

DomainPool(catalog, d) == {catalog[i].id : i \in {j \in 1..Len(catalog) : catalog[j].domain = d}}

\* The ids startExamMode can select: for every weighted domain a draw of
\* DomainCount questions of the domain (all of them when it has fewer), topped
\* up from the rest of the catalog until examQuestionCount questions are
\* selected or the catalog is used up.
DomainDraws(catalog, n, d) ==
    {S \in SUBSET DomainPool(catalog, d) :
        Cardinality(S) = Min(DomainCount(n, d), Cardinality(DomainPool(catalog, d)))}

WeightedDraws(catalog, n) ==
    {a \cup b \cup c \cup d \cup e :
        a \in DomainDraws(catalog, n, "Information System Auditing Process"),
        b \in DomainDraws(catalog, n, "Governance And Management Of It"),
        c \in DomainDraws(catalog, n, "Information Systems Acquisition, Development And Implementation"),
        d \in DomainDraws(catalog, n, "Information Systems Operations And Business Resilience"),
        e \in DomainDraws(catalog, n, "Protection Of Information Assets")}

ExamSelections(catalog, n) ==
    {D \cup T : D \in WeightedDraws(catalog, n), T \in SUBSET Ids(catalog)} \cap
    {S \in SUBSET Ids(catalog) : Cardinality(S) = Min(n, Len(catalog))}

\* The selection in every order (the final shuffle).
ExamLists(catalog, n) ==
    UNION {Arrangements(FilterSeq(catalog, S), Cardinality(S)) : S \in ExamSelections(catalog, n)}

\* resetSession and the setters of startPracticeMode.  d and n are
\* selectedDomain and numberOfQuestions, set on the setup screen.
\* The length of list.slice(0, n) for a list of len elements and n >= 0, and
\* the length of the list itself.
SliceWhole(n, len) == len

SliceLength(n, len) == Min(n, len)

startPracticeMode(practiceQuestions, mode, d, n) ==
    LET filtered == IF d = "all" THEN allQuestions
                    ELSE FilterSeq(allQuestions, DomainPool(allQuestions, d))
        lists    == IF mode = "practice"
                    THEN Arrangements(filtered, SliceLength(n, Len(filtered)))
                    ELSE {practiceQuestions}
    IN  \E questionsToSet \in lists :
          IF questionsToSet = <<>>
          THEN UNCHANGED <<commitVars, historyVars>>
          ELSE /\ Commit(mode, questionsToSet, 0, EmptyMap, EmptyMap, now,
                         examStartTime, examDuration)
               /\ SessionStarts

startExamMode(examQuestionCount) ==
    \E examQuestions \in ExamLists(allQuestions, examQuestionCount) :
        /\ Commit("exam", examQuestions, 0, EmptyMap, EmptyMap, now, now,
                  ExamDurationOf(examQuestionCount))
        /\ SessionStarts

\* handleAnswerSelect, called by the option buttons; mode is the currentMode of
\* the render the handler belongs to.
\* new Set(prev).add(questionId), and a variant that forgets the id.
WithoutMissed(prev, questionId) == prev

\* A variant that starts from an empty set: new Set().add(questionId).
OnlyMissed(prev, questionId) == {questionId}

WithMissed(prev, questionId) == prev \cup {questionId}

handleAnswerSelect(questionId, answerIndex) ==
    /\ incorrectlyAnswered' =
         IF IsPractice(ViewMode) /\ currentQ.correctAnswer # answerIndex
         THEN WithMissed(incorrectlyAnswered, questionId)
         ELSE incorrectlyAnswered
    /\ Commit(currentMode, questions, currentQuestion,
              Put(selectedAnswers, questionId, answerIndex),
              IF IsPractice(ViewMode)
              THEN AddTime(questionTimes, questionId, RoundSeconds(now - questionStartTime))
              ELSE questionTimes,
              sessionStartTime, examStartTime, examDuration)

\* [...prev, sessionData], the new record behind the earlier ones, and
\* [sessionData, ...prev] of the updater of setSessionHistory.
WithSessionLast(sessionData, prev) == prev \o <<sessionData>>

WithSession(sessionData, prev) == <<sessionData>> \o prev

\* recordSession with the values of the caller's render, then the setters of
\* handleSubmit that do not wait for a render.
recordSession(mode, qs, answers, times, startTime) ==
    /\ sessionHistory' = WithSession(sessionDataOf(mode, qs, answers, times, startTime),
                                  sessionHistory)
    /\ domainPerformance' =
         addBreakdown(domainPerformance, domainBreakdownOf(qs, answers))
    /\ lastSessionResults' = <<sessionDataOf(mode, qs, answers, times, startTime)>>

handleSubmit ==
    /\ recordSession(ViewMode, questions, selectedAnswers, questionTimes, sessionStartTime)
    /\ CommitMode("results")

handleNextQuestion ==
    IF currentQuestion < Len(questions) - 1
    THEN /\ Commit(currentMode, questions, currentQuestion + 1, selectedAnswers,
                   questionTimes, sessionStartTime, examStartTime, examDuration)
         /\ UNCHANGED <<sessionHistory, domainPerformance, lastSessionResults>>
    ELSE handleSubmit

handlePreviousQuestion ==
    IF currentQuestion > 0
    THEN Commit(currentMode, questions, currentQuestion - 1, selectedAnswers,
                questionTimes, sessionStartTime, examStartTime, examDuration)
    ELSE UNCHANGED commitVars

\* A variant of the updater that never deletes, and the updater of
\* setBookmarkedQuestions.
ToggledOn(prev, questionId) == prev \cup {questionId}

Toggled(prev, questionId) ==
    IF questionId \in prev THEN prev \ {questionId} ELSE prev \cup {questionId}

toggleBookmark(questionId) ==
    bookmarkedQuestions' = Toggled(bookmarkedQuestions, questionId)

\* ------------------------------------------------------------------ events
\* The longest wait of the model: the duration of the shortest exam.
LongWaitMs == ExamDurationOf(50) * 1000

MayStart == started < MaxSessions

OnQuestionScreen == ViewMode \in QuestionModes /\ HasQuestion(questions, currentQuestion)

\* The wall clock advances while a question is on the screen: by a short step,
\* or, once and while an exam runs, by the duration of an exam.
Tick ==
    /\ ~renderPending
    /\ currentMode \in QuestionModes
    /\ \/ /\ now % LongWaitMs < TickMs * (1 + MaxTicks)
          /\ now' = now + TickMs
       \/ /\ TimerActive
          /\ now < LongWaitMs
          /\ now' = now + LongWaitMs
    /\ UNCHANGED <<historyVars, fixedVars, lastSessionResults, bookmarkedQuestions,
                   aggregateVars, commitVars>>
    /\ saveProgress

\* Dashboard: "Start Practice" and "Start Exam" open the setup screens.
OpenSetup ==
    /\ ViewMode = "analytics"
    /\ MayStart
    /\ \E m \in {"setup", "exam-setup"} : CommitMode(m)
    /\ UNCHANGED <<historyVars, fixedVars, lastSessionResults, bookmarkedQuestions,
                   aggregateVars, now>>
    /\ saveProgress

\* "Back to Dashboard" of the setup and results screens.
ToDashboard ==
    /\ ViewMode \in {"setup", "exam-setup", "results"}
    /\ CommitMode("analytics")
    /\ UNCHANGED <<historyVars, fixedVars, lastSessionResults, bookmarkedQuestions,
                   aggregateVars, now>>
    /\ saveProgress

\* The Home button of the question screen.
Home ==
    /\ ViewMode \in QuestionModes
    /\ CommitMode("analytics")
    /\ UNCHANGED <<historyVars, fixedVars, lastSessionResults, bookmarkedQuestions,
                   aggregateVars, now>>
    /\ saveProgress

\* The catalog after a start has shuffled its list with sort(): the sorts are
\* applied to [...allQuestions], to arrays that filter and reduce build and to
\* examQuestions, never to allQuestions.  The variant sorts allQuestions itself
\* when the list is the whole catalog.
catalogSortedInPlace(catalog, sorted) ==
    IF Len(sorted) = Len(catalog) THEN sorted ELSE catalog

catalogAfterSort(catalog, sorted) == catalog

\* "Start Practice" of the setup screen.
StartPractice ==
    /\ ViewMode = "setup"
    /\ MayStart
    /\ \E d \in {"all"} \cup {allQuestions[i].domain : i \in 1..Len(allQuestions)},
          n \in (1..Len(allQuestions)) \cup {20} :
         startPracticeMode(<<>>, "practice", d, n)
    /\ allQuestions' = catalogAfterSort(allQuestions, questions')
    /\ UNCHANGED <<run, lastSessionResults, bookmarkedQuestions,
                   aggregateVars, now>>
    /\ saveProgress

\* "Review Incorrect" and "Review Bookmarked" of the dashboard, disabled while
\* their list is empty.
StartReview ==
    /\ ViewMode = "analytics"
    /\ MayStart
    /\ \E r \in {<<"practice-incorrect", incorrectlyAnswered>>,
                 <<"practice-bookmarked", bookmarkedQuestions>>} :
         /\ FilterSeq(allQuestions, r[2]) # <<>>
         /\ startPracticeMode(FilterSeq(allQuestions, r[2]), r[1], "all", 20)
    /\ UNCHANGED <<fixedVars, lastSessionResults, bookmarkedQuestions,
                   aggregateVars, now>>
    /\ saveProgress

\* "Start Exam" of the exam setup screen.
StartExam ==
    /\ ViewMode = "exam-setup"
    /\ MayStart
    /\ \E examQuestionCount \in ExamQuestionCounts : startExamMode(examQuestionCount)
    /\ allQuestions' = catalogAfterSort(allQuestions, questions')
    /\ UNCHANGED <<run, lastSessionResults, bookmarkedQuestions, aggregateVars, now>>
    /\ saveProgress

\* A variant of the option buttons that are never disabled.
OptionNeverDisabled == FALSE

\* A variant of the option buttons that are disabled once answered, in any mode.
OptionDisabledOnceAnswered == isAnswered

\* disabled={isAnswered && currentMode.startsWith('practice')}
OptionDisabled == isAnswered /\ IsPractice(ViewMode)

\* An option button of the question on the screen.
AnswerClick ==
    /\ OnQuestionScreen
    /\ ~OptionDisabled
    /\ \E index \in 0..(Len(currentQ.options) - 1) : handleAnswerSelect(currentQ.id, index)
    /\ UNCHANGED <<historyVars, fixedVars, lastSessionResults, bookmarkedQuestions,
                   sessionHistory, domainPerformance, now>>
    /\ saveProgress

\* "Previous", disabled at the first question.
PreviousClick ==
    /\ OnQuestionScreen
    /\ currentQuestion # 0
    /\ \A id \in DOMAIN questionTimes : questionTimes[id] <= MaxSeconds
    /\ handlePreviousQuestion
    /\ UNCHANGED <<historyVars, fixedVars, lastSessionResults, bookmarkedQuestions,
                   aggregateVars, now>>
    /\ saveProgress

\* Variants of the two buttons that are never disabled.
NextNeverDisabled == FALSE

FinishNeverDisabled == FALSE

\* disabled={!isAnswered} of "Next Question" and of "Finish Session"
NextDisabled == ~isAnswered

FinishDisabled == ~isAnswered

\* "Next Question", shown before the last question, disabled until answered.
NextClick ==
    /\ OnQuestionScreen
    /\ currentQuestion # Len(questions) - 1
    /\ ~NextDisabled
    /\ handleNextQuestion
    /\ UNCHANGED <<historyVars, fixedVars, bookmarkedQuestions, incorrectlyAnswered, now>>
    /\ saveProgress

\* "Finish Session", shown at the last question, disabled until answered.
FinishClick ==
    /\ OnQuestionScreen
    /\ currentQuestion = Len(questions) - 1
    /\ ~FinishDisabled
    /\ handleSubmit
    /\ UNCHANGED <<historyVars, fixedVars, bookmarkedQuestions, incorrectlyAnswered, now>>
    /\ saveProgress

BookmarkClick ==
    /\ OnQuestionScreen
    /\ toggleBookmark(currentQ.id)
    /\ CommitMode(currentMode)
    /\ UNCHANGED <<historyVars, fixedVars, lastSessionResults, aggregateVars, now>>
    /\ saveProgress

\* The callback of the exam timer's setInterval.  It holds the handleSubmit of
\* the render in which the effect ran; its updates are rendered later.
TimerTick ==
    /\ TimerActive
    /\ ~renderPending
    /\ IF examEffect.examDuration - FloorSeconds(now - examEffect.examStartTime) <= 0
       THEN /\ recordSession(examEffect.currentMode, examEffect.questions,
                             examEffect.selectedAnswers, examEffect.questionTimes,
                             examEffect.sessionStartTime)
            /\ currentMode' = "results"
            /\ renderPending' = TRUE
            /\ UNCHANGED <<questions, currentQuestion, selectedAnswers,
                           sessionStartTime, examStartTime, examDuration, questionTimes,
                           questionStartTime, qEffect, examEffect>>
       ELSE UNCHANGED <<lastSessionResults, sessionHistory, domainPerformance, commitVars>>
    /\ UNCHANGED <<historyVars, fixedVars, bookmarkedQuestions, incorrectlyAnswered, now>>
    /\ saveProgress

\* The render of the updates of the timer callback, and its commit.
Render ==
    /\ renderPending
    /\ CommitMode(currentMode)
    /\ UNCHANGED <<historyVars, fixedVars, lastSessionResults, bookmarkedQuestions,
                   aggregateVars, now>>
    /\ saveProgress

Next ==
    \/ Tick
    \/ OpenSetup
    \/ ToDashboard
    \/ Home
    \/ StartPractice
    \/ StartReview
    \/ StartExam
    \/ AnswerClick
    \/ PreviousClick
    \/ NextClick
    \/ FinishClick
    \/ BookmarkClick
    \/ TimerTick
    \/ Render

Spec == Init /\ [][Next]_vars

\* ------------------------------------------------- the score specification
\* A question bank of n questions of which the first c have option 0 as their
\* correct answer and the others option 1.
ScoreCatalog(n, c) ==
    [i \in 1..n |-> [id |-> i, options |-> <<"a", "b">>,
                     correctAnswer |-> IF i <= c THEN 0 ELSE 1,
                     domain |-> "General"]]

\* The state after "Start Practice" of a practice session over the whole bank,
\* in the bank's order, the first session of the run.
InitScore ==
    \E n \in 1..MaxScoreTotal : \E c \in 0..n :
        /\ allQuestions = ScoreCatalog(n, c)
        /\ questions = ScoreCatalog(n, c)
        /\ currentMode = "practice"
        /\ currentQuestion = 0
        /\ lastSessionResults = <<>>
        /\ selectedAnswers = EmptyMap
        /\ examStartTime = 0
        /\ examDuration = 240 * 60
        /\ sessionHistory = <<>>
        /\ domainPerformance = EmptyMap
        /\ sessionStartTime = TickMs
        /\ bookmarkedQuestions = {}
        /\ incorrectlyAnswered = {}
        /\ questionStartTime = TickMs
        /\ questionTimes = EmptyMap
        /\ now = TickMs
        /\ examEffect = [currentMode |-> "practice", examStartTime |-> 0,
                         examDuration |-> 240 * 60, questions |-> ScoreCatalog(n, c),
                         selectedAnswers |-> EmptyMap, questionTimes |-> EmptyMap,
                         sessionStartTime |-> TickMs]
        /\ qEffect = [currentMode |-> "practice", questions |-> ScoreCatalog(n, c),
                      currentQuestion |-> 0, questionStartTime |-> 0]
        /\ renderPending = FALSE
        /\ storage = SavedProgress(<<>>, EmptyMap, {}, {})
        /\ run = NoRun
        /\ started = 1
        /\ atStart = [sessionHistory |-> <<>>, domainPerformance |-> EmptyMap,
                      incorrectlyAnswered |-> {}]

\* The learner chooses the first option of every question.
FirstOptionClick ==
    /\ OnQuestionScreen
    /\ ~OptionDisabled
    /\ handleAnswerSelect(currentQ.id, 0)
    /\ UNCHANGED <<historyVars, fixedVars, lastSessionResults, bookmarkedQuestions,
                   sessionHistory, domainPerformance, now>>
    /\ saveProgress

NextScore ==
    \/ FirstOptionClick
    \/ NextClick
    \/ FinishClick

SpecScore == InitScore /\ [][NextScore]_vars

\* ------------------------------------------------------------------ claims
\* round(100 * a / b), a half going up, in exact arithmetic.
RoundHalfUp(a, b) == (200 * a + b) \div (2 * b)

\* C1: every recorded result holds as correctAnswers the number of questions of
\* the list whose answer is the correct option, and as percentage
\* round(100 * correctAnswers / totalQuestions), a half rounded up (0 for an
\* empty list).
C1_ScoreFormula ==
    /\ \A i \in 1..Len(sessionHistory) :
         sessionHistory[i].percentage =
            IF sessionHistory[i].totalQuestions = 0 THEN 0
            ELSE RoundHalfUp(sessionHistory[i].correctAnswers, sessionHistory[i].totalQuestions)
    /\ currentMode = "results" /\ lastSessionResults # <<>> =>
         /\ lastSessionResults[1].totalQuestions = Len(questions)
         /\ lastSessionResults[1].correctAnswers =
              Cardinality({i \in 1..Len(questions) : IsCorrect(questions[i], selectedAnswers)})

\* The results recorded for the session that was started last.
SessionRecords == Len(sessionHistory) - Len(atStart.sessionHistory)

\* The questions that the answers on the screen answer correctly.
CorrectNow == {i \in 1..Len(questions) : IsCorrect(questions[i], selectedAnswers)}

\* C2: finish is idempotent: once the session has been recorded, a further
\* finish of the same session leaves sessionHistory and domainPerformance as
\* they are.
C2_FinishIdempotent ==
    [][(SessionRecords >= 1 /\ started' = started) =>
          (sessionHistory' = sessionHistory /\ domainPerformance' = domainPerformance)]_vars

RECURSIVE SumSeq(_)
SumSeq(s) == IF s = <<>> THEN 0 ELSE Head(s) + SumSeq(Tail(s))

\* The counts of domain d in the breakdown of every entry of the history.
HistoryCounts(d, field) ==
    [i \in 1..Len(sessionHistory) |->
        IF d \in DOMAIN sessionHistory[i].domainBreakdown
        THEN IF field = "total" THEN sessionHistory[i].domainBreakdown[d].total
             ELSE sessionHistory[i].domainBreakdown[d].correct
        ELSE 0]

\* C3: for every domain, domainPerformance holds the sum, over the entries of
\* sessionHistory, of the entry's total and of its correct count for the
\* domain; it has an entry for exactly the domains of the recorded sessions.
C3_DomainStatsAreSums ==
    /\ DOMAIN domainPerformance =
         UNION {DOMAIN sessionHistory[i].domainBreakdown : i \in 1..Len(sessionHistory)}
    /\ \A d \in DOMAIN domainPerformance :
         /\ domainPerformance[d].total = SumSeq(HistoryCounts(d, "total"))
         /\ domainPerformance[d].correct = SumSeq(HistoryCounts(d, "correct"))

\* Two recorded sessions with questions of one domain, one of them with a
\* correct answer in it.
C3_Witness ==
    /\ Len(sessionHistory) = 2
    /\ \E d \in DOMAIN domainPerformance :
         /\ d \in DOMAIN sessionHistory[1].domainBreakdown
         /\ d \in DOMAIN sessionHistory[2].domainBreakdown
         /\ domainPerformance[d].total >= 2
         /\ domainPerformance[d].correct = 1

\* C4: an exam session the timer finished at its deadline has exactly one
\* recorded result, in which no unanswered question counts as correct.
C4_TimerFinishesOnce ==
    (/\ SessionRecords >= 1
     /\ sessionHistory[1].mode = "exam"
     /\ sessionHistory[1].date - examStartTime >= examDuration * 1000)
    => /\ SessionRecords = 1
       /\ sessionHistory[1].correctAnswers <= Cardinality(CorrectNow)

\* C5: a result is scored with the answers as they stand when the session is
\* finished, by the Finish button or by the exam timer.
C5_ScoredByLastAnswers ==
    [][Len(sessionHistory') > Len(sessionHistory) =>
          sessionHistory'[1].correctAnswers = Cardinality(CorrectNow)]_vars

\* C6: when the exam timer has detected the deadline and finished the session,
\* a manual finish that follows adds no second entry to sessionHistory and no
\* second increment to domainPerformance.
C6_TimerAndFinishRecordOnce ==
    [][renderPending =>
          (sessionHistory' = sessionHistory /\ domainPerformance' = domainPerformance)]_vars

\* C7: when the learner leaves an unfinished session for the dashboard,
\* sessionHistory, domainPerformance and incorrectlyAnswered are what they were
\* when the session started.
C7_AbandonLeavesAggregates ==
    [][(currentMode \in QuestionModes /\ ~renderPending /\ currentMode' = "analytics") =>
          /\ sessionHistory' = atStart.sessionHistory
          /\ domainPerformance' = atStart.domainPerformance
          /\ incorrectlyAnswered' = atStart.incorrectlyAnswered]_vars

\* C8: no session is in progress with an empty question list, in any mode, and
\* no recorded result has totalQuestions = 0.
C8_EmptyStartRejected ==
    /\ currentMode \in QuestionModes => questions # <<>>
    /\ \A i \in 1..Len(sessionHistory) : sessionHistory[i].totalQuestions > 0

\* C9: in the practice modes, while the session runs, the answer recorded for
\* a question is never replaced or removed, incorrectlyAnswered does not
\* change once the question on the screen is answered, and the recorded times
\* do not change while the cursor stays on it.
C9_PracticeAnswerOnce ==
    [][(IsPractice(currentMode) /\ currentMode' = currentMode) =>
          /\ \A id \in DOMAIN selectedAnswers :
                id \in DOMAIN selectedAnswers' /\ selectedAnswers'[id] = selectedAnswers[id]
          /\ isAnswered =>
                /\ incorrectlyAnswered' = incorrectlyAnswered
                /\ currentQuestion' = currentQuestion => questionTimes' = questionTimes]_vars

\* A practice session with the question on the screen answered wrongly: its
\* option buttons are disabled.
C9_Witness ==
    /\ IsPractice(currentMode)
    /\ HasQuestion(questions, currentQuestion)
    /\ OptionDisabled
    /\ currentQ.id \in incorrectlyAnswered
    /\ selectedAnswers[currentQ.id] # currentQ.correctAnswer

\* ---------------------------------------------- the handler called directly
\* handleAnswerSelect with any question id of the catalog and any index up to
\* one past the options, whatever the buttons on the screen offer.
SubmitAnswer ==
    /\ OnQuestionScreen
    /\ \A id \in DOMAIN questionTimes : questionTimes[id] <= MaxSeconds
    /\ \E questionId \in Ids(allQuestions), answerIndex \in 0..Len(currentQ.options) :
         handleAnswerSelect(questionId, answerIndex)
    /\ UNCHANGED <<historyVars, fixedVars, lastSessionResults, bookmarkedQuestions,
                   sessionHistory, domainPerformance, now>>
    /\ saveProgress

\* One session, from the dashboard to its results.
NextApi ==
    \/ OpenSetup
    \/ StartPractice
    \/ StartExam
    \/ Tick
    \/ SubmitAnswer
    \/ NextClick
    \/ FinishClick

SpecApi == Init /\ [][NextApi]_vars

MaxDelta == 1
\* Most questions of the bank outside the weighted domains.
MaxGeneral == 1

\* The keys of CISA_DOMAIN_WEIGHTS in the order of for...in, then the domain
\* of the questions that have no weighted domain.
DomainOrder ==
    << "Information System Auditing Process",
       "Governance And Management Of It",
       "Information Systems Acquisition, Development And Implementation",
       "Information Systems Operations And Business Resilience",
       "Protection Of Information Assets",
       "General" >>

NumWeighted == Cardinality(DOMAIN CISA_DOMAIN_WEIGHTS)

\* The total of a count per domain.
Total(f) == SumSeq([i \in 1..Len(DomainOrder) |-> f[DomainOrder[i]]])

\* A variant that takes the whole domain.
DomainTakeAll(examQuestionCount, d, size) == size

\* questionsByDomain[domainKey].sort(...).slice(0, count): how many questions
\* of a domain of the given size the exam takes.
DomainTake(examQuestionCount, d, size) == Min(DomainCount(examQuestionCount, d), size)

\* A variant of the loop that never runs.
TopUpNever(len, examQuestionCount, bankSize) == FALSE

\* A variant of the condition that does not look at the size of the bank.
TopUpUntilCount(len, examQuestionCount, bankSize) == len < examQuestionCount

\* The condition of the while loop of the top-up.
TopUpContinues(len, examQuestionCount, bankSize) ==
    len < examQuestionCount /\ bankSize > len

\* The condition of the warning "Not enough questions ...".
PartialExam(len, examQuestionCount) == len < examQuestionCount

\* The banks: in every weighted domain up to MaxDelta questions more or fewer
\* than the exam takes of it, and up to MaxGeneral questions outside them.
ExamBanks(n) ==
    {[d \in {DomainOrder[i] : i \in 1..Len(DomainOrder)} |->
         IF d = "General" THEN g
         ELSE IF DomainCount(n, d) + delta[d] < 0 THEN 0 ELSE DomainCount(n, d) + delta[d]] :
       delta \in [DOMAIN CISA_DOMAIN_WEIGHTS -> (0 - MaxDelta)..MaxDelta], g \in 0..MaxGeneral}

\* startExamMode is called with examQuestionCount chosen on the setup screen.
InitExam ==
    /\ InitWith(Catalog)
    /\ started = 0
    /\ \E n \in ExamQuestionCounts : \E sizes \in ExamBanks(n) :
         run = [op |-> "startExamMode", examQuestionCount |-> n, sizes |-> sizes,
                picked |-> [d \in DOMAIN sizes |-> 0], next |-> 1, pc |-> "domains",
                alerted |-> FALSE]

mainVars == <<allQuestions, questions, currentMode, currentQuestion, lastSessionResults,
              selectedAnswers, examStartTime, examDuration, sessionHistory,
              domainPerformance, sessionStartTime, bookmarkedQuestions, incorrectlyAnswered,
              questionStartTime, questionTimes, now, examEffect, qEffect, renderPending,
              storage, started, atStart>>

\* One turn of the loop over CISA_DOMAIN_WEIGHTS.
ExamDrawDomain ==
    /\ run.op = "startExamMode" /\ run.pc = "domains"
    /\ LET d == DomainOrder[run.next]
       IN  run' = [run EXCEPT
                      !.picked[d] = DomainTake(run.examQuestionCount, d, run.sizes[d]),
                      !.next = run.next + 1,
                      !.pc = IF run.next = NumWeighted THEN "topup" ELSE "domains"]
    /\ UNCHANGED mainVars

\* !examQuestions.find(q => q.id === randomQ.id) can hold for a question of a
\* domain of which picked of size questions are in the list; and a variant that
\* takes every question for a new one.
FindsNone(picked, size) == TRUE

MayBeNew(picked, size) == picked < size

\* One turn of the while loop: randomQ is a question of domain d, and is pushed
\* when it is not yet in the list.
ExamTopUp ==
    /\ run.op = "startExamMode" /\ run.pc = "topup"
    /\ TopUpContinues(Total(run.picked), run.examQuestionCount, Total(run.sizes))
    /\ \E d \in DOMAIN run.sizes :
         \/ /\ MayBeNew(run.picked[d], run.sizes[d])
            /\ run' = [run EXCEPT !.picked[d] = run.picked[d] + 1]
         \/ /\ run.picked[d] > 0
            /\ run' = run
    /\ UNCHANGED mainVars

\* After the loop: the slice (the list is never longer than examQuestionCount,
\* the rounded weights of the three counts adding up to the count) and the
\* warning.
ExamWarn ==
    /\ run.op = "startExamMode" /\ run.pc = "topup"
    /\ ~TopUpContinues(Total(run.picked), run.examQuestionCount, Total(run.sizes))
    /\ run' = [run EXCEPT !.pc = "done",
                          !.alerted = PartialExam(Total(run.picked), run.examQuestionCount)]
    /\ UNCHANGED mainVars

NextExam ==
    \/ ExamDrawDomain
    \/ ExamTopUp
    \/ ExamWarn

SpecExam == InitExam /\ [][NextExam]_vars

\* round(a / b), a half going up, in exact arithmetic.
RoundDiv(a, b) == (2 * a + b) \div (2 * b)

\* C11: when the bank holds, in each of the five weighted domains, at least
\* round(examQuestionCount * weight) questions, the exam list has exactly
\* examQuestionCount questions, round(examQuestionCount * weight) of them of
\* each weighted domain.
C11_ExamComposition ==
    (/\ run.op = "startExamMode" /\ run.pc = "done"
     /\ \A d \in DOMAIN CISA_DOMAIN_WEIGHTS :
           run.sizes[d] >= RoundDiv(run.examQuestionCount * CISA_DOMAIN_WEIGHTS[d], 100))
    => /\ Total(run.picked) = run.examQuestionCount
       /\ \A d \in DOMAIN CISA_DOMAIN_WEIGHTS :
             run.picked[d] = RoundDiv(run.examQuestionCount * CISA_DOMAIN_WEIGHTS[d], 100)

\* A full exam of 150 questions from a bank with more questions than needed
\* in a weighted domain and outside the weighted domains.
C11_Witness ==
    /\ run.op = "startExamMode" /\ run.pc = "done"
    /\ run.examQuestionCount = 150
    /\ \A d \in DOMAIN CISA_DOMAIN_WEIGHTS :
          run.sizes[d] >= RoundDiv(150 * CISA_DOMAIN_WEIGHTS[d], 100)
    /\ \E d \in DOMAIN CISA_DOMAIN_WEIGHTS :
          run.sizes[d] > RoundDiv(150 * CISA_DOMAIN_WEIGHTS[d], 100)
    /\ run.sizes["General"] > 0
    /\ Total(run.picked) = 150
    /\ run.picked["Protection Of Information Assets"] = 39

\* C12: the warning of a partial exam is given exactly when the exam list is
\* shorter than examQuestionCount, and when the bank holds fewer questions
\* than examQuestionCount the list holds every question of the bank.
C12_PartialExam ==
    (run.op = "startExamMode" /\ run.pc = "done")
    => /\ run.alerted <=> Total(run.picked) < run.examQuestionCount
       /\ Total(run.sizes) < run.examQuestionCount =>
             (run.picked = run.sizes /\ run.alerted)

\* A bank smaller than the exam, with a question outside the weighted domains:
\* the list is the whole bank and the warning is given.
C12_Witness ==
    /\ run.op = "startExamMode" /\ run.pc = "done"
    /\ Total(run.sizes) < run.examQuestionCount
    /\ run.sizes["General"] > 0
    /\ run.picked = run.sizes
    /\ run.alerted

\* ------------------------------------------- startPracticeMode as a function
\* The setup screen's selectedDomain and numberOfQuestions are kept in run, the
\* catalog has several questions in each of two domains.
PoolSize == 3

PracticeCatalog ==
    [i \in 1..(2 * PoolSize) |->
        [id |-> i, options |-> <<"a", "b">>, correctAnswer |-> 0,
         domain |-> IF i % 2 = 1 THEN "Protection Of Information Assets"
                    ELSE "General"]]

DefaultNumberOfQuestions == 20

\* [...new Set(allQuestions.map(q => q.domain))]
availableDomains == {allQuestions[i].domain : i \in 1..Len(allQuestions)}

\* The pool of the setup screen for a domain of the <select>.
FilteredPool(d) ==
    IF d = "all" THEN allQuestions
    ELSE FilterSeq(allQuestions, DomainPool(allQuestions, d))

InitPractice ==
    /\ InitWith(PracticeCatalog)
    /\ run = [op |-> "startPracticeMode", selectedDomain |-> "all",
              numberOfQuestions |-> DefaultNumberOfQuestions, pc |-> "setup"]

\* "Practice" of the dashboard.
OpenPracticeSetup ==
    /\ ViewMode = "analytics"
    /\ run.pc = "setup"
    /\ CommitMode("setup")
    /\ UNCHANGED <<historyVars, fixedVars, lastSessionResults, bookmarkedQuestions,
                   aggregateVars, now>>
    /\ saveProgress

\* The <select> of the setup screen.
SelectDomain ==
    /\ ViewMode = "setup"
    /\ \E d \in {"all"} \cup availableDomains :
         run' = [run EXCEPT !.selectedDomain = d]
    /\ UNCHANGED mainVars

\* The slider of the setup screen, from 1 to the size of the selected pool.
SetNumberOfQuestions ==
    /\ ViewMode = "setup"
    /\ \E n \in 1..Len(FilteredPool(run.selectedDomain)) :
         run' = [run EXCEPT !.numberOfQuestions = n]
    /\ UNCHANGED mainVars

\* "Start Practice" with the domain and the number of the setup screen.
StartPracticeRun ==
    /\ ViewMode = "setup"
    /\ startPracticeMode(<<>>, "practice", run.selectedDomain, run.numberOfQuestions)
    /\ run' = [run EXCEPT !.pc = "called"]
    /\ UNCHANGED <<allQuestions, lastSessionResults, bookmarkedQuestions,
                   aggregateVars, now>>
    /\ saveProgress

NextPractice ==
    \/ OpenPracticeSetup
    \/ SelectDomain
    \/ SetNumberOfQuestions
    \/ StartPracticeRun

SpecPractice == InitPractice /\ [][NextPractice]_vars

NoRepeats(qs) == \A i, j \in 1..Len(qs) : i # j => qs[i] # qs[j]

\* C13: plain practice started with domain d and count n has a list without
\* repeated questions, all of them of the pool of d (the whole catalog for
\* 'all'), of length min(n, pool size); with n at least the pool size the list
\* holds the whole pool.
C13_PracticeSelection ==
    run.op = "startPracticeMode" /\ run.pc = "called" =>
        LET pool == FilteredPool(run.selectedDomain)
            n    == run.numberOfQuestions
        IN  /\ currentMode = "practice"
            /\ NoRepeats(questions)
            /\ Ids(questions) \subseteq Ids(pool)
            /\ \A i \in 1..Len(questions) :
                   run.selectedDomain # "all" => questions[i].domain = run.selectedDomain
            /\ Len(questions) = Min(n, Len(pool))
            /\ (n >= Len(pool) => Ids(questions) = Ids(pool))

C13_Witness ==
    /\ run.op = "startPracticeMode" /\ run.pc = "called"
    /\ run.selectedDomain = "General"
    /\ run.numberOfQuestions = 2 * PoolSize - 1
    /\ Len(questions) = PoolSize

\* ------------------------------------------------------ the missed questions
\* The results screen of a finished practice session: the session's list and
\* answers are still in the state.
PracticeFinished ==
    /\ currentMode = "results"
    /\ ~renderPending
    /\ lastSessionResults # <<>>
    /\ IsPractice(lastSessionResults[1].mode)

AnsweredWrong(q) ==
    q.id \in DOMAIN selectedAnswers /\ selectedAnswers[q.id] # q.correctAnswer

\* C14: after a finished practice session, the id of every question of the
\* session that was answered wrongly is in incorrectlyAnswered.
C14_WrongAnswersMissed ==
    PracticeFinished =>
        \A i \in 1..Len(questions) :
            AnsweredWrong(questions[i]) => questions[i].id \in incorrectlyAnswered

C14_Witness ==
    /\ PracticeFinished
    /\ \E i \in 1..Len(questions) :
          /\ AnsweredWrong(questions[i])
          /\ questions[i].id \in incorrectlyAnswered
          /\ questions[i].id \notin atStart.incorrectlyAnswered
    /\ \E i \in 1..Len(questions) : IsCorrect(questions[i], selectedAnswers)

\* C15: no step removes an id from incorrectlyAnswered, and a step taken from
\* the exam's question screen (an exam answer among them) leaves it as it is.
C15_MissedOnlyGrows ==
    [][/\ incorrectlyAnswered \subseteq incorrectlyAnswered'
       /\ (ViewMode = "exam" => incorrectlyAnswered' = incorrectlyAnswered)]_vars

C15_Witness ==
    /\ started = MaxSessions
    /\ ViewMode = "exam"
    /\ atStart.incorrectlyAnswered # {}
    /\ atStart.incorrectlyAnswered \subseteq incorrectlyAnswered
    /\ \E i \in 1..Len(questions) :
          AnsweredWrong(questions[i]) /\ questions[i].id \notin incorrectlyAnswered

\* C16: a step leaves sessionHistory as it is or puts one record, the one of
\* lastSessionResults, in front of the unchanged earlier records.
C16_HistoryAppendOnly ==
    [][\/ sessionHistory' = sessionHistory
       \/ /\ sessionHistory' # <<>>
          /\ Tail(sessionHistory') = sessionHistory
          /\ lastSessionResults' = <<Head(sessionHistory')>>]_vars

C16_Witness ==
    /\ Len(sessionHistory) = 2
    /\ started = MaxSessions
    /\ atStart.sessionHistory # <<>>
    /\ Tail(sessionHistory) = atStart.sessionHistory
    /\ Head(sessionHistory) # sessionHistory[2]
    /\ lastSessionResults = <<Head(sessionHistory)>>

\* The state of the session and the aggregates other than the bookmarks.
sessionVars == <<currentMode, questions, currentQuestion, selectedAnswers,
                 sessionStartTime, examStartTime, examDuration, questionTimes,
                 questionStartTime, lastSessionResults>>

SymDiff(a, b) == (a \ b) \cup (b \ a)

\* C17: in every state and for every id (0 is the id of no question),
\* toggling twice gives the bookmarks back and one toggle changes the membership of that id alone; a step that
\* changes the bookmarks is one toggle and leaves the session state,
\* incorrectlyAnswered, sessionHistory and domainPerformance as they are.
C17_ToggleBookmark ==
    [][/\ \A id \in Ids(allQuestions) \cup {0} :
             /\ Toggled(Toggled(bookmarkedQuestions, id), id) = bookmarkedQuestions
             /\ SymDiff(Toggled(bookmarkedQuestions, id), bookmarkedQuestions) = {id}
       /\ bookmarkedQuestions' # bookmarkedQuestions =>
             /\ \E id \in Ids(allQuestions) :
                    bookmarkedQuestions' = Toggled(bookmarkedQuestions, id)
             /\ UNCHANGED <<sessionVars, aggregateVars>>]_vars

C17_Witness ==
    /\ OnQuestionScreen
    /\ selectedAnswers # EmptyMap
    /\ currentQ.id \in bookmarkedQuestions
    /\ bookmarkedQuestions # Ids(allQuestions)
    /\ sessionHistory # <<>>
    /\ incorrectlyAnswered # {}

\* ------------------------------------------------ transformQuestions, the loader
\* A string of the raw data is a sequence of one-character strings; Undefined
\* is a field that the record does not have.
Undefined == <<"undefined">>

\* !v for a string or undefined
Falsy(v) == v = <<>> \/ v = Undefined

\* v || def
OrDefault(v, def) == IF Falsy(v) THEN def ELSE v

LowerLetters ==
    << "a", "b", "c", "d", "e", "f", "g", "h", "i", "j", "k", "l", "m",
       "n", "o", "p", "q", "r", "s", "t", "u", "v", "w", "x", "y", "z" >>

UpperLetters ==
    << "A", "B", "C", "D", "E", "F", "G", "H", "I", "J", "K", "L", "M",
       "N", "O", "P", "Q", "R", "S", "T", "U", "V", "W", "X", "Y", "Z" >>

\* array.indexOf(x), from 0, -1 when absent
indexOf(array, x) ==
    IF \E i \in 1..Len(array) : array[i] = x
    THEN (CHOOSE i \in 1..Len(array) :
              array[i] = x /\ \A j \in 1..(i - 1) : array[j] # x) - 1
    ELSE 0 - 1

toUpperCaseChar(c) ==
    IF indexOf(LowerLetters, c) >= 0 THEN UpperLetters[indexOf(LowerLetters, c) + 1] ELSE c

toLowerCaseChar(c) ==
    IF indexOf(UpperLetters, c) >= 0 THEN LowerLetters[indexOf(UpperLetters, c) + 1] ELSE c

toUpperCase(s) == [i \in 1..Len(s) |-> toUpperCaseChar(s[i])]

toLowerCase(s) == [i \in 1..Len(s) |-> toLowerCaseChar(s[i])]

RECURSIVE trimStart(_)
trimStart(s) == IF s # <<>> /\ Head(s) = " " THEN trimStart(Tail(s)) ELSE s

RECURSIVE trimEnd(_)
trimEnd(s) ==
    IF s # <<>> /\ s[Len(s)] = " " THEN trimEnd(SubSeq(s, 1, Len(s) - 1)) ELSE s

trim(s) == trimEnd(trimStart(s))

\* s.split(' '): the pieces between the spaces, empty pieces included
RECURSIVE split(_)
split(s) ==
    IF indexOf(s, " ") < 0 THEN <<s>>
    ELSE <<SubSeq(s, 1, indexOf(s, " "))>>
         \o split(SubSeq(s, indexOf(s, " ") + 2, Len(s)))

\* words.join(' ')
RECURSIVE join(_)
join(words) ==
    IF words = <<>> THEN <<>>
    ELSE IF Len(words) = 1 THEN words[1]
    ELSE words[1] \o <<" ">> \o join(Tail(words))

\* word.charAt(0).toUpperCase() + word.slice(1)
capitalize(word) ==
    IF word = <<>> THEN <<>> ELSE <<toUpperCaseChar(word[1])>> \o Tail(word)

General == <<"G", "e", "n", "e", "r", "a", "l">>

normalizeDomain(rawDomain) ==
    LET words == split(toLowerCase(OrDefault(rawDomain, General)))
    IN  join([i \in 1..Len(words) |-> capitalize(words[i])])

\* [OptionA, OptionB, OptionC, OptionD].filter(Boolean)
RECURSIVE filterBoolean(_)
filterBoolean(array) ==
    IF array = <<>> THEN <<>>
    ELSE (IF Falsy(Head(array)) THEN <<>> ELSE <<Head(array)>>)
         \o filterBoolean(Tail(array))

\* The index of the letter of the raw record among A to D, 0 for no letter of
\* these.
correctAnswerIndexOf(rawCorrectAnswer, options) ==
    LET correctAnswerLetter == toUpperCase(trim(OrDefault(rawCorrectAnswer, <<"A">>)))
        correctAnswerIndex  == indexOf(<<"A", "B", "C", "D">>,
                                       IF Len(correctAnswerLetter) = 1
                                       THEN correctAnswerLetter[1] ELSE "")
    IN  IF correctAnswerIndex = 0 - 1 THEN 0 ELSE correctAnswerIndex

\* rawQ.id is 0 where the record has no id.
transformQuestions(rawData) ==
    [k \in 1..Len(rawData) |->
        LET rawQ    == rawData[k]
            index   == k - 1
            options == filterBoolean(<<rawQ.OptionA, rawQ.OptionB, rawQ.OptionC, rawQ.OptionD>>)
        IN  [id            |-> IF rawQ.id # 0 THEN rawQ.id ELSE index + 1,
             options       |-> options,
             correctAnswer |-> correctAnswerIndexOf(rawQ.CorrectAnswer, options),
             domain        |-> normalizeDomain(rawQ.Domain)]]

\* The inputs: option texts present, empty or missing; letters valid, in lower
\* case, padded, invalid, empty or missing; domains over a small alphabet.
MaxDomainLen == 4

RawOptions == {<<"x">>, <<>>, Undefined}

RawLetters ==
    {Undefined, <<>>, <<" ">>, <<"A">>, <<"B">>, <<"C">>, <<"D">>, <<"a">>, <<"d">>,
     <<" ", "b">>, <<"c", " ">>, <<"E">>, <<"A", "B">>}

DomainChars == {"a", "A", " "}

Strings(chars, maxLen) == UNION {[1..n -> chars] : n \in 0..maxLen}

GovernanceSpaced ==
    << " ", " ", "g", "o", "v", "e", "r", "n", "a", "n", "c", "e", " ", "a", "n", "d",
       " ", "m", "a", "n", "a", "g", "e", "m", "e", "n", "t", " ", "o", "f", " ",
       "i", "t", " " >>

GovernanceTitled ==
    << "G", "o", "v", "e", "r", "n", "a", "n", "c", "e", " ", "A", "n", "d",
       " ", "M", "a", "n", "a", "g", "e", "m", "e", "n", "t", " ", "O", "f", " ",
       "I", "t" >>

RawDomains ==
    Strings(DomainChars, MaxDomainLen) \cup {Undefined, GovernanceSpaced, GovernanceTitled}

\* Records that vary in their options and letter, and records that vary in
\* their domain.
RawRecords ==
    {[id |-> 0, OptionA |-> a, OptionB |-> b, OptionC |-> c, OptionD |-> d,
      CorrectAnswer |-> letter, Domain |-> Undefined] :
        a \in RawOptions, b \in RawOptions, c \in RawOptions, d \in RawOptions,
        letter \in RawLetters}
    \cup
    {[id |-> id, OptionA |-> <<"x">>, OptionB |-> <<"y">>, OptionC |-> Undefined,
      OptionD |-> Undefined, CorrectAnswer |-> <<"B">>, Domain |-> domain] :
        id \in {0, 7}, domain \in RawDomains}

InitLoad ==
    /\ InitWith(<<>>)
    /\ \E rawQ \in RawRecords :
         run = [op |-> "transformQuestions", rawData |-> <<rawQ>>, pc |-> "raw"]

\* useState(() => transformQuestions(rawQuestionsData))
LoadQuestions ==
    /\ run.op = "transformQuestions"
    /\ run.pc = "raw"
    /\ allQuestions' = transformQuestions(run.rawData)
    /\ run' = [run EXCEPT !.pc = "loaded"]
    /\ UNCHANGED <<commitVars, historyVars, lastSessionResults, bookmarkedQuestions,
                   aggregateVars, now, storage>>

NextLoad == LoadQuestions

SpecLoad == InitLoad /\ [][NextLoad]_vars

Loaded == run.op = "transformQuestions" /\ run.pc = "loaded"

\* The letter of a raw record names one of A to D, in either case, padded or not.
ValidLetter(rawCorrectAnswer) ==
    /\ ~Falsy(rawCorrectAnswer)
    /\ toUpperCase(trim(rawCorrectAnswer)) \in {<<"A">>, <<"B">>, <<"C">>, <<"D">>}

\* C18: every loaded question has 0 <= correctAnswer < Len(options), and an
\* invalid or missing letter gives correctAnswer 0.
C18_CorrectIndexInOptions ==
    Loaded =>
        \A k \in 1..Len(allQuestions) :
            /\ 0 <= allQuestions[k].correctAnswer
            /\ allQuestions[k].correctAnswer < Len(allQuestions[k].options)
            /\ (~ValidLetter(run.rawData[k].CorrectAnswer)
                    => allQuestions[k].correctAnswer = 0)

\* The words of a string: its pieces between spaces that are not empty.
RECURSIVE nonEmpty(_)
nonEmpty(pieces) ==
    IF pieces = <<>> THEN <<>>
    ELSE (IF Head(pieces) = <<>> THEN <<>> ELSE <<Head(pieces)>>) \o nonEmpty(Tail(pieces))

\* Two raw strings differ in letter case and in spacing only.
SameUpToCaseAndSpacing(a, b) ==
    nonEmpty(split(toLowerCase(a))) = nonEmpty(split(toLowerCase(b)))

\* C19: raw domain strings that differ only in letter case or in leading,
\* trailing or repeated spaces load as the same domain label, and normalizing
\* a loaded label gives the label back.
C19_DomainNormalization ==
    Loaded =>
        \A k \in 1..Len(allQuestions) :
            run.rawData[k].Domain # Undefined =>
                /\ \A other \in RawDomains \ {Undefined} :
                       SameUpToCaseAndSpacing(run.rawData[k].Domain, other)
                           => normalizeDomain(other) = allQuestions[k].domain
                /\ normalizeDomain(allQuestions[k].domain) = allQuestions[k].domain

ShortExam == 50

\* "Start Exam" with the count whose deadline the clock of the model reaches.
StartShortExam ==
    /\ ViewMode = "exam-setup"
    /\ MayStart
    /\ startExamMode(ShortExam)
    /\ UNCHANGED <<fixedVars, lastSessionResults, bookmarkedQuestions, aggregateVars, now>>
    /\ saveProgress

NextLive ==
    \/ OpenSetup
    \/ StartShortExam
    \/ Tick
    \/ AnswerClick
    \/ NextClick
    \/ FinishClick
    \/ Home
    \/ ToDashboard
    \/ TimerTick
    \/ Render

SpecLive ==
    /\ Init
    /\ [][NextLive]_vars
    /\ WF_vars(Tick)
    /\ WF_vars(TimerTick)
    /\ WF_vars(Render)

\* C21: an exam session that was started is in the end recorded, or replaced
\* by the start of another session.  (The first session of a run: the clock of
\* the model reaches its deadline.)
C21_ExamEventuallyRecorded ==
    (started = 1 /\ currentMode = "exam" /\ SessionRecords = 0)
        ~> (started > 1 \/ SessionRecords >= 1)

\* ------------------------------------------------------------- the cursor
\* C22: while a session is in progress the cursor is an index of the question
\* list; a start sets it to 0, a step that keeps the session moves it by one
\* at most and within the list, and leaves the list as it is.
C22_CursorInRange ==
    [][/\ (currentMode' \in QuestionModes =>
              0 <= currentQuestion' /\ currentQuestion' < Len(questions'))
       /\ (started' # started => currentQuestion' = 0)
       /\ (started' = started /\ currentMode \in QuestionModes =>
              /\ questions' = questions
              /\ currentQuestion' - currentQuestion \in {0 - 1, 0, 1}
              /\ (currentQuestion' # currentQuestion => currentMode' = currentMode))]_vars

\* C23: the exam list holds no question twice (of no domain more questions
\* than the bank has of it) and never more than examQuestionCount, and when
\* startExamMode is done its length is min(examQuestionCount, size of the bank).
C23_ExamListDistinct ==
    run.op = "startExamMode" =>
        /\ \A d \in DOMAIN run.sizes : run.picked[d] <= run.sizes[d]
        /\ Total(run.picked) <= run.examQuestionCount
        /\ (run.pc = "done" =>
               Total(run.picked) = Min(run.examQuestionCount, Total(run.sizes)))

C23_Witness ==
    /\ run.op = "startExamMode" /\ run.pc = "done"
    /\ Total(run.sizes) > run.examQuestionCount
    /\ Total(run.picked) = run.examQuestionCount
    /\ run.picked["General"] = MaxGeneral
    /\ \E d \in DOMAIN CISA_DOMAIN_WEIGHTS :
          run.picked[d] > DomainCount(run.examQuestionCount, d)
    /\ \E d \in DOMAIN CISA_DOMAIN_WEIGHTS : run.picked[d] < run.sizes[d]

\* ------------------------------------------------------ the time of a question
\* A practice session with a clock of whole seconds; run.spent is, for every
\* question, the seconds during which it was the question on the screen.
MaxClockSeconds == 3

InitTime ==
    /\ InitWith(Catalog)
    /\ run = [op |-> "questionTimes", spent |-> EmptyMap]

\* "Start Practice" over the whole bank.
StartTimedPractice ==
    /\ ViewMode = "setup"
    /\ MayStart
    /\ startPracticeMode(<<>>, "practice", "all", DefaultNumberOfQuestions)
    /\ run' = [run EXCEPT !.spent = EmptyMap]
    /\ UNCHANGED <<allQuestions, lastSessionResults, bookmarkedQuestions,
                   aggregateVars, now>>
    /\ saveProgress

\* A second passes while a question of a practice session is on the screen.
TickSecond ==
    /\ OnQuestionScreen
    /\ IsPractice(ViewMode)
    /\ now < TickMs + MaxClockSeconds * 1000
    /\ now' = now + 1000
    /\ run' = [run EXCEPT !.spent = AddTime(run.spent, currentQ.id, 1)]
    /\ UNCHANGED <<historyVars, allQuestions, lastSessionResults, bookmarkedQuestions,
                   aggregateVars, commitVars>>
    /\ saveProgress

NextTime ==
    \/ OpenSetup
    \/ StartTimedPractice
    \/ TickSecond
    \/ AnswerClick
    \/ NextClick
    \/ PreviousClick
    \/ FinishClick

SpecTime == InitTime /\ [][NextTime]_vars

\* C24: when a practice session is finished, the time recorded for each of
\* its questions is the number of seconds it was on the screen, and is not
\* more than the seconds the session took.
C24_QuestionTimeIsTimeOnScreen ==
    (run.op = "questionTimes" /\ PracticeFinished) =>
        \A id \in DOMAIN questionTimes :
            /\ questionTimes[id] = (IF id \in DOMAIN run.spent THEN run.spent[id] ELSE 0)
            /\ questionTimes[id] * 1000 <= now - sessionStartTime

\* ------------------------------------------------------- the answers of an exam
\* C25: on the question screen of an exam the options stay enabled, and a step
\* that changes the answers sets the answer of the question on the screen,
\* keeps every other answer, and leaves incorrectlyAnswered and questionTimes
\* as they are.
C25_ExamAnswerReplaces ==
    [][(ViewMode = "exam" /\ OnQuestionScreen) =>
          /\ ~OptionDisabled
          /\ (selectedAnswers' # selectedAnswers /\ started' = started) =>
                /\ DOMAIN selectedAnswers' = DOMAIN selectedAnswers \cup {currentQ.id}
                /\ \A id \in DOMAIN selectedAnswers \ {currentQ.id} :
                       selectedAnswers'[id] = selectedAnswers[id]
                /\ incorrectlyAnswered' = incorrectlyAnswered
                /\ questionTimes' = questionTimes]_vars

C25_Witness ==
    /\ ViewMode = "exam" /\ ~renderPending
    /\ OnQuestionScreen
    /\ currentQuestion = 1
    /\ DOMAIN selectedAnswers = Ids(questions)
    /\ \A i \in 1..Len(questions) : AnsweredWrong(questions[i])
    /\ incorrectlyAnswered = {}
    /\ questionTimes = EmptyMap

\* ------------------------------------------------------------ the catalog
ReviewModes == {"practice-incorrect", "practice-bookmarked"}

\* C26: no step changes the catalog, and the list of a review session is the
\* catalog's questions of the reviewed ids in the order of the catalog.
C26_CatalogReadOnly ==
    [][/\ allQuestions' = allQuestions
       /\ (currentMode' \in ReviewModes =>
              questions' = FilterSeq(allQuestions', Ids(questions')))]_vars

C26_Witness ==
    /\ currentMode \in ReviewModes
    /\ allQuestions = Catalog
    /\ questions = Catalog
    /\ started = MaxSessions
    /\ sessionHistory # <<>>
    /\ selectedAnswers # EmptyMap

\* ------------------------------------------------- answered before going on
\* The questions of the list that have an answer.
AllAnswered(qs, answers) == \A i \in 1..Len(qs) : qs[i].id \in DOMAIN answers

\* C27: while a session is in progress every question before the cursor has
\* an answer, and a step that keeps the session removes no answer.
C27_AnsweredBeforeCursor ==
    [][/\ (currentMode' \in QuestionModes =>
              AllAnswered(SubSeq(questions', 1, Min(currentQuestion', Len(questions'))),
                          selectedAnswers'))
       /\ (currentMode \in QuestionModes /\ started' = started =>
              DOMAIN selectedAnswers \subseteq DOMAIN selectedAnswers')]_vars

C27_Witness ==
    /\ currentMode \in QuestionModes
    /\ currentQuestion = 1
    /\ Len(questions) = 2
    /\ DOMAIN selectedAnswers = {questions[1].id}

\* C28: a record that a click of "Finish Session" adds is of a session in which
\* every question has an answer (the record of the exam timer is rendered
\* later and may be of a session with unanswered questions).
C28_ManualFinishComplete ==
    [][(Len(sessionHistory') > Len(sessionHistory) /\ ~renderPending') =>
          /\ AllAnswered(questions, selectedAnswers)
          /\ sessionHistory'[1].totalQuestions = Cardinality(DOMAIN selectedAnswers)]_vars

C28_Witness ==
    /\ currentMode = "results" /\ ~renderPending
    /\ SessionRecords = 1
    /\ Len(questions) = 2
    /\ AllAnswered(questions, selectedAnswers)
    /\ lastSessionResults[1].totalQuestions = 2
    /\ lastSessionResults[1].mode = "exam"

\* ------------------------------------------------- the counts of a record
RECURSIVE SumOver(_, _, _)
SumOver(breakdown, domains, field) ==
    IF domains = {} THEN 0
    ELSE LET d == CHOOSE x \in domains : TRUE
         IN  (IF field = "total" THEN breakdown[d].total ELSE breakdown[d].correct)
             + SumOver(breakdown, domains \ {d}, field)

\* C29: in every record of sessionHistory the totals of the domains add up to
\* totalQuestions and their correct counts to correctAnswers, no domain has
\* more correct answers than questions, and the percentage is from 0 to 100;
\* and no domain of domainPerformance has more correct answers than questions.
C29_RecordsConsistent ==
    /\ \A i \in 1..Len(sessionHistory) :
          LET r == sessionHistory[i]
          IN  /\ SumOver(r.domainBreakdown, DOMAIN r.domainBreakdown, "total") = r.totalQuestions
              /\ SumOver(r.domainBreakdown, DOMAIN r.domainBreakdown, "correct") = r.correctAnswers
              /\ \A d \in DOMAIN r.domainBreakdown :
                     /\ 0 <= r.domainBreakdown[d].correct
                     /\ r.domainBreakdown[d].correct <= r.domainBreakdown[d].total
              /\ 0 <= r.percentage /\ r.percentage <= 100
    /\ \A d \in DOMAIN domainPerformance :
          domainPerformance[d].correct <= domainPerformance[d].total

C29_Witness ==
    /\ Len(sessionHistory) = 2
    /\ Cardinality(DOMAIN sessionHistory[1].domainBreakdown) = 2
    /\ sessionHistory[1].correctAnswers = 1
    /\ sessionHistory[1].percentage = 50
    /\ sessionHistory[2].correctAnswers = 0
    /\ \E d \in DOMAIN domainPerformance :
          domainPerformance[d].correct = 1 /\ domainPerformance[d].total = 2

\* ------------------------------------------------ startExamMode comes to its end
\* The loops of startExamMode run on, and the random index of the top-up does
\* not for ever miss the questions that are not in the list: a turn that adds
\* a question is taken in the end while one is possible.
SpecExamFair ==
    /\ InitExam
    /\ [][NextExam]_vars
    /\ WF_vars(ExamDrawDomain)
    /\ WF_vars(ExamTopUp)
    /\ WF_vars(ExamWarn)

\* C30: startExamMode comes to its end, for every bank and every count.
C30_TopUpTerminates == <>(run.op = "startExamMode" /\ run.pc = "done")

C30_Witness ==
    /\ run.op = "startExamMode" /\ run.pc = "done"
    /\ Total(run.sizes) < run.examQuestionCount
    /\ run.picked = run.sizes
    /\ run.sizes["General"] = MaxGeneral
    /\ run.examQuestionCount = 100

====
